---------------------------- MODULE Spec2Model ----------------------------
(***************************************************************************)
(* Model of the Bernard OpenAI proxy (src/api/main.py): the health         *)
(* aggregation, the model-catalog aggregation and the four proxied         *)
(* operations with the buffered and the streamed relay.                    *)
(*                                                                         *)
(* One inbound request is followed in full; once it has ended the next one *)
(* may arrive.  A second request in flight beside it is kept in outline    *)
(* (peer).  The backends are the environment: what a backend answers is    *)
(* chosen by \E in the step that awaits the answer, or by the Backend*     *)
(* steps for the exchange of a proxied call.  A handler step runs from one *)
(* await to the next: it takes the answer awaited and sends the next       *)
(* request.                                                                *)
(***************************************************************************)
EXTENDS Naturals, Sequences, FiniteSets

(***************************************************************************)
(* Bounds of the model.                                                    *)
(***************************************************************************)
\* most chunks a backend emits on one proxied exchange
MaxChunks == 2
\* most entries in one backend's model catalog
MaxCatalog == 2
\* most parts in one inbound multipart form
MaxParts == 2

(***************************************************************************)
(* Program constants.                                                      *)
(***************************************************************************)
\* resp.status_code < 500 (health_check)
ServerErrorFloor == 500
\* resp.status_code == 200 (list_models)
CatalogOk == 200
\* HTTPException(status_code=500, ...)
InternalError == 500
\* the status a StreamingResponse / a returned dict is sent with
DefaultStatus == 200

(***************************************************************************)
(* Transport-level exceptions and str(e).                                  *)
(***************************************************************************)
Exceptions == {"ConnectError", "ReadTimeout"}

RECURSIVE Concat(_)
\* b"".join(chunks)
Concat(chunks) ==
  IF chunks = <<>> THEN <<>> ELSE Head(chunks) \o Concat(Tail(chunks))

IsPrefix(s, t) ==
  /\ Len(s) <= Len(t)
  /\ \A k \in 1..Len(s) : s[k] = t[k]

\* str(e): the description of an exception
Str(e) ==
  CASE e = "ConnectError" -> "All connection attempts failed"
    [] e = "ReadTimeout" -> "The read operation timed out"
    [] OTHER -> e

\* what a backend call can come to: a response with a status, or an exception
Responded(s) == [kind |-> "resp", status |-> s, exc |-> "none"]
Raised(e) == [kind |-> "exc", status |-> 0, exc |-> e]

(***************************************************************************)
(* The backends, in the order health_check walks them.                     *)
(***************************************************************************)
Backends == <<"bernard", "vllm", "whisper", "kokoro">>

\* check_url = f"{url}/api/status" if name == "bernard" else f"{url}/health"
CheckPath(name) == IF name = "bernard" THEN "/api/status" ELSE "/health"

\* "up" if resp.status_code < 500 else "error"
Classify(status) == IF status < ServerErrorFloor THEN "up" ELSE "error"

\* the statuses a probe is answered with
ProbeStatuses == {200, 404, 500}

VARIABLES
  op,        \* the operation being served, "idle" when none is
  pc,        \* where its handler stands
  req,       \* the inbound request
  outbound,  \* the backend requests the call has issued, in order
  upstream,  \* the backend's side of a proxied exchange
  caller,    \* what has been sent to the caller
  health,    \* health_check: the health dict
  idx,       \* health_check: position in the list of backends
  probes,    \* health_check: the probes awaited and what each came to
  models,    \* list_models: the models list
  fetched,   \* list_models: what each catalog query came to
  multipart, \* transcriptions: the data and files of the outbound request
  earlier,   \* the status the last /health call before this one returned
  peer,      \* a second request, in flight beside the one being served
  blocking   \* a handler waits for its backend and has kept the event loop

vars == <<op, pc, req, outbound, upstream, caller, health, idx, probes,
          models, fetched, multipart, earlier, peer, blocking>>

NoRequest ==
  [body |-> "none", stream |-> [t |-> "absent", n |-> 0], form |-> <<>>]
NoUpstream == [phase |-> "none", status |-> 0, headers |-> <<>>,
               emitted |-> <<>>, exc |-> "none", held |-> FALSE]
NoResponse == [phase |-> "none", kind |-> "none", status |-> 0,
               headers |-> <<>>, chunks |-> <<>>, detail |-> "none"]
NoHealth == [status |-> "none", services |-> <<>>]
NoMultipart == [data |-> <<>>, files |-> <<>>]
NoPeer ==
  [pc |-> "none", out |-> [kind |-> "none", status |-> 0, exc |-> "none"],
   result |-> [status |-> 0, detail |-> "none"]]

Init ==
  /\ op = "idle"
  /\ pc = "idle"
  /\ req = NoRequest
  /\ outbound = <<>>
  /\ upstream = NoUpstream
  /\ caller = NoResponse
  /\ health = NoHealth
  /\ idx = 0
  /\ probes = <<>>
  /\ models = <<>>
  /\ fetched = <<>>
  /\ multipart = NoMultipart
  /\ earlier = "none"
  /\ peer = NoPeer
  /\ blocking = FALSE

\* a call of a client that does not suspend the handler: the event loop is
\* kept until the backend has answered
AwaitKeepsLoop == blocking' = TRUE

\* await on a call of the AsyncClient: the handler is suspended and the
\* event loop is free for other requests until the backend has answered
Await == blocking' = FALSE

\* the handler has no backend call pending
Runs == blocking' = FALSE

\* a returned dict is sent as a JSON response with the default status
JsonResponse ==
  [phase |-> "complete", kind |-> "json", status |-> DefaultStatus,
   headers |-> <<>>, chunks |-> <<>>, detail |-> "none"]

(***************************************************************************)
(* GET /health                                                             *)
(***************************************************************************)
\* health["services"][name] = status: services is kept as the sequence of
\* the items of the dict, one per name, in insertion order
SetService(h, name, status) ==
  [h EXCEPT !.services =
     Append(@, [name |-> name, status |-> status, reason |-> "none"])]

\* a down record that leaves the aggregate status as it was
SetDownQuiet(h, name, e) ==
  [h EXCEPT !.services =
              Append(@, [name |-> name, status |-> "down", reason |-> Str(e)])]

\* health["services"][name] = f"down ({str(e)})"; health["status"] = "degraded"
SetDown(h, name, e) ==
  [h EXCEPT !.services =
              Append(@, [name |-> name, status |-> "down", reason |-> Str(e)]),
            !.status = "degraded"]

\* what a probe can come to
ProbeOutcomes ==
  {Responded(s) : s \in ProbeStatuses} \cup {Raised(e) : e \in Exceptions}

Probe(name, path, out) == [name |-> name, path |-> path, out |-> out]

\* http_client.get(check_url, ...) for the k-th backend goes out, if there is
\* a k-th backend
IssuePrimary(k) ==
  IF k <= Len(Backends)
  THEN Append(outbound, [backend |-> Backends[k], path |-> CheckPath(Backends[k])])
  ELSE outbound

\* http_client.get(url, ...) for the k-th backend goes out
IssueFallback(k) == Append(outbound, [backend |-> Backends[k], path |-> ""])

\* a handler whose health dict outlives the call: the status starts as the
\* last call left it
HealthStartKeepsStatus ==
  /\ op = "idle"
  /\ op' = "health"
  /\ pc' = "primary"
  /\ health' = [status |-> IF earlier = "none" THEN "ok" ELSE earlier,
                services |-> <<>>]
  /\ idx' = 1
  /\ outbound' = IssuePrimary(1)
  /\ UNCHANGED <<req, upstream, caller, probes, models, fetched>>
  /\ UNCHANGED <<multipart, earlier, peer>>
  /\ Await

\* health = {"status": "ok", "services": {}}, up to the first
\* await http_client.get(check_url, timeout=2.0)
HealthStart ==
  /\ op = "idle"
  /\ op' = "health"
  /\ pc' = "primary"
  /\ health' = [status |-> "ok", services |-> <<>>]
  /\ idx' = 1
  /\ outbound' = IssuePrimary(1)
  /\ UNCHANGED <<req, upstream, caller, probes, models, fetched>>
  /\ UNCHANGED <<multipart, earlier, peer>>
  /\ Await

\* resp = await http_client.get(check_url, timeout=2.0) is resumed; what
\* follows it, up to the next await
HealthPrimary ==
  /\ op = "health"
  /\ pc = "primary"
  /\ idx <= Len(Backends)
  /\ \E out \in ProbeOutcomes :
       LET name == Backends[idx] IN
       /\ probes' = Append(probes, Probe(name, CheckPath(name), out))
       /\ IF out.kind = "resp"
          THEN /\ health' = SetService(health, name, Classify(out.status))
               /\ idx' = idx + 1
               /\ pc' = "primary"
               /\ outbound' = IssuePrimary(idx + 1)
          ELSE /\ pc' = "fallback"
               /\ outbound' = IssueFallback(idx)
               /\ UNCHANGED <<health, idx>>
  /\ UNCHANGED <<op, req, upstream, caller, models, fetched>>
  /\ UNCHANGED <<multipart, earlier, peer>>
  /\ IF pc' \in {"primary", "fallback"} /\ idx' <= Len(Backends) THEN Await ELSE Runs

\* a fallback whose exception is not caught: the call is left with it and
\* the framework answers 500
HealthFallbackAborts ==
  /\ op = "health"
  /\ pc = "fallback"
  /\ \E out \in ProbeOutcomes :
       LET name == Backends[idx] IN
       /\ probes' = Append(probes, Probe(name, "", out))
       /\ IF out.kind = "resp"
          THEN /\ health' = SetService(health, name, Classify(out.status))
               /\ idx' = idx + 1
               /\ pc' = "primary"
               /\ outbound' = IssuePrimary(idx + 1)
               /\ UNCHANGED caller
          ELSE /\ caller' = [JsonResponse EXCEPT !.status = InternalError]
               /\ pc' = "responded"
               /\ UNCHANGED <<health, idx, outbound>>
  /\ UNCHANGED <<op, req, upstream, models, fetched>>
  /\ UNCHANGED <<multipart, earlier, peer>>
  /\ IF pc' \in {"primary", "fallback"} /\ idx' <= Len(Backends) THEN Await ELSE Runs

\* except: resp = await http_client.get(url, timeout=2.0) is resumed; what
\* follows it, up to the next await
HealthFallback ==
  /\ op = "health"
  /\ pc = "fallback"
  /\ \E out \in ProbeOutcomes :
       LET name == Backends[idx] IN
       /\ probes' = Append(probes, Probe(name, "", out))
       /\ health' = IF out.kind = "resp"
                    THEN SetService(health, name, Classify(out.status))
                    ELSE SetDown(health, name, out.exc)
  /\ idx' = idx + 1
  /\ outbound' = IssuePrimary(idx + 1)
  /\ pc' = "primary"
  /\ UNCHANGED <<op, req, upstream, caller, models, fetched>>
  /\ UNCHANGED <<multipart, earlier, peer>>
  /\ IF pc' \in {"primary", "fallback"} /\ idx' <= Len(Backends) THEN Await ELSE Runs

\* return health
HealthReturn ==
  /\ op = "health"
  /\ pc = "primary"
  /\ idx = Len(Backends) + 1
  /\ caller' = JsonResponse
  /\ pc' = "responded"
  /\ UNCHANGED <<op, req, outbound, upstream, health, idx, probes, models,
                 fetched>>
  /\ UNCHANGED <<multipart, earlier, peer>>
  /\ Runs

(***************************************************************************)
(* GET /v1/models                                                          *)
(*                                                                         *)
(* A JSON value is [t, items]: a list with its elements, a string with its *)
(* characters, an object with its keys, or a number or null.  A model      *)
(* descriptor is kept as its id.                                           *)
(***************************************************************************)
Entry(id) == [t |-> "model", items |-> <<id>>]
JList(es) == [t |-> "list", items |-> es]
JStr(cs) == [t |-> "str", items |-> cs]
JDict(ks) == [t |-> "dict", items |-> ks]
JNum == [t |-> "num", items |-> <<>>]
JNull == [t |-> "null", items |-> <<>>]

\* the ids backends list
ModelIds == {"A", "B"}

Catalogs == UNION {[1..n -> {Entry(id) : id \in ModelIds}] : n \in 0..MaxCatalog}

\* the body of a catalog response: text that is no JSON, a JSON array, or
\* a JSON object, with or without the key "data"
CatalogBodies ==
  {[json |-> "invalid", has |-> FALSE, data |-> JNull],
   [json |-> "array", has |-> FALSE, data |-> JNull],
   [json |-> "object", has |-> FALSE, data |-> JNull]}
  \cup {[json |-> "object", has |-> TRUE, data |-> d] :
          d \in {JList(c) : c \in Catalogs}
                \cup {JStr(<<"A", "B">>), JDict(<<<<"i", "d">>>>), JNum, JNull}}

CatalogStatuses == {200, 503}

CatalogOutcomes ==
  {[kind |-> "resp", status |-> s, exc |-> "none", body |-> b] :
     s \in CatalogStatuses, b \in CatalogBodies}
  \cup {[kind |-> "exc", status |-> 0, exc |-> e,
         body |-> [json |-> "invalid", has |-> FALSE, data |-> JNull]] :
          e \in Exceptions}

\* resp.json() raises on text that is no JSON; .get raises on what is no dict
JsonGetRaises(body) == body.json # "object"

\* resp.json().get("data", [])
GetData(body) == IF body.has THEN body.data ELSE JList(<<>>)

\* list.extend(v) raises TypeError on what cannot be iterated
Iterable(v) == v.t \in {"list", "str", "dict"}

\* iter(v): the elements of a list, the characters of a string, the keys of
\* a dict
Iter(v) ==
  CASE v.t = "list" -> v.items
    [] v.t = "str" -> [k \in 1..Len(v.items) |-> JStr(<<v.items[k]>>)]
    [] v.t = "dict" -> [k \in 1..Len(v.items) |-> JStr(v.items[k])]
    [] OTHER -> <<>>

\* an aggregation that leaves out an entry it already holds
ExtendNoDuplicates(ms, out) ==
  IF out.kind = "resp" /\ out.status = CatalogOk /\ ~JsonGetRaises(out.body)
     /\ Iterable(GetData(out.body))
  THEN LET new == SelectSeq(Iter(GetData(out.body)),
                            LAMBDA e : \A k \in 1..Len(ms) : ms[k] # e)
       IN  ms \o new
  ELSE ms

\* try: resp = ...; if resp.status_code == 200:
\*     models.extend(resp.json().get("data", []))
\* except Exception: logger.warning(...)
Extend(ms, out) ==
  IF out.kind = "resp" /\ out.status = CatalogOk /\ ~JsonGetRaises(out.body)
     /\ Iterable(GetData(out.body))
  THEN ms \o Iter(GetData(out.body))
  ELSE ms

\* the two models.append({...}) of list_models
StaticModels == <<Entry("whisper-1"), Entry("kokoro-v1.0")>>

\* models = [], up to await http_client.get(f"{BERNARD_URL}/api/v1/models")
ModelsStart ==
  /\ op = "idle"
  /\ op' = "models"
  /\ pc' = "bernard"
  /\ models' = <<>>
  /\ outbound' = <<[backend |-> "bernard", path |-> "/api/v1/models"]>>
  /\ UNCHANGED <<req, upstream, caller, health, idx, probes, fetched>>
  /\ UNCHANGED <<multipart, earlier, peer>>
  /\ Await

\* 1. Models from Bernard: the query is resumed; up to
\* await http_client.get(f"{VLLM_URL}/v1/models")
ModelsBernard ==
  /\ op = "models"
  /\ pc = "bernard"
  /\ \E out \in CatalogOutcomes :
       /\ fetched' = Append(fetched, out)
       /\ models' = Extend(models, out)
  /\ outbound' = Append(outbound, [backend |-> "vllm", path |-> "/v1/models"])
  /\ pc' = "vllm"
  /\ UNCHANGED <<op, req, upstream, caller, health, idx, probes>>
  /\ UNCHANGED <<multipart, earlier, peer>>
  /\ Await

\* 2. Models from vLLM: the query is resumed
ModelsVllm ==
  /\ op = "models"
  /\ pc = "vllm"
  /\ \E out \in CatalogOutcomes :
       /\ fetched' = Append(fetched, out)
       /\ models' = Extend(models, out)
  /\ pc' = "static"
  /\ UNCHANGED <<op, req, outbound, upstream, caller, health, idx, probes>>
  /\ UNCHANGED <<multipart, earlier, peer>>
  /\ Runs

\* 3. Static models for audio; return {"object": "list", "data": models}
ModelsReturn ==
  /\ op = "models"
  /\ pc = "static"
  /\ models' = models \o StaticModels
  /\ caller' = JsonResponse
  /\ pc' = "responded"
  /\ UNCHANGED <<op, req, outbound, upstream, health, idx, probes, fetched>>
  /\ UNCHANGED <<multipart, earlier, peer>>
  /\ Runs

(***************************************************************************)
(* The proxied operations: what comes in and what a backend sends back.    *)
(***************************************************************************)
ProxyOps == {"chat", "embeddings", "transcriptions", "speech"}

\* target_url of each handler
TargetBackend(o) ==
  CASE o = "chat" -> "bernard"
    [] o = "embeddings" -> "vllm"
    [] o = "transcriptions" -> "whisper"
    [] o = "speech" -> "kokoro"

TargetPath(o) ==
  CASE o = "chat" -> "/api/v1/chat/completions"
    [] o = "embeddings" -> "/v1/embeddings"
    [] o = "transcriptions" -> "/v1/audio/transcriptions"
    [] o = "speech" -> "/v1/audio/speech"

Target(o) == [backend |-> TargetBackend(o), path |-> TargetPath(o)]

\* the value of "stream" in the inbound JSON object: absent, or a JSON
\* value [t, n] with n the truth value of a boolean (0, 1), the number, or
\* the length of a string
Absent == [t |-> "absent", n |-> 0]
JTrue == [t |-> "bool", n |-> 1]
JFalse == [t |-> "bool", n |-> 0]

StreamFlags ==
  {Absent, JTrue, JFalse, [t |-> "null", n |-> 0], [t |-> "num", n |-> 0],
   [t |-> "num", n |-> 1], [t |-> "str", n |-> 0], [t |-> "str", n |-> 5]}

\* a handler that streams only on the JSON value true
TruthyOnlyTrue(f) == f.t = "bool" /\ f.n = 1

\* body.get("stream", False), as `if not stream_requested` reads it
Truthy(f) == f.t \in {"bool", "num", "str"} /\ f.n # 0

\* inbound bodies: text that is no JSON, JSON that is no object, an object
ChatRequests ==
  {[body |-> b, stream |-> Absent, form |-> <<>>] : b \in {"invalid", "nonobject"}}
  \cup {[body |-> "object", stream |-> f, form |-> <<>>] : f \in StreamFlags}

JsonRequests ==
  {[body |-> b, stream |-> Absent, form |-> <<>>] : b \in {"invalid", "nonobject"}}
  \cup {[body |-> "object", stream |-> f, form |-> <<>>] : f \in {Absent, JTrue}}

\* a part of a multipart form: a scalar field, or a file (an UploadFile)
Field(name, value) ==
  [name |-> name, file |-> FALSE, filename |-> "", content |-> value,
   type |-> ""]
FilePart(name, filename, content, type) ==
  [name |-> name, file |-> TRUE, filename |-> filename, content |-> content,
   type |-> type]

Parts ==
  {FilePart("file", "a.wav", "RIFF", "audio/wav"),
   Field("language", "en"),
   Field("timestamp_granularities[]", "word"),
   Field("timestamp_granularities[]", "segment")}

\* the inbound forms: the parts in the order they were sent
Forms == UNION {[1..n -> Parts] : n \in 0..MaxParts}

FormRequests == {[body |-> "form", stream |-> Absent, form |-> f] : f \in Forms}

\* form_data.items(): one item for each field name, at the place of the
\* name's first part and with the value of its last part
FormItems(form) ==
  LET first == {k \in 1..Len(form) :
                  \A j \in 1..(k - 1) : form[j].name # form[k].name}
      last(name) ==
        form[CHOOSE k \in 1..Len(form) :
               /\ form[k].name = name
               /\ \A j \in (k + 1)..Len(form) : form[j].name # name]
      keep[k \in 0..Len(form)] ==
        IF k = 0 THEN <<>>
        ELSE IF k \in first THEN Append(keep[k - 1], last(form[k].name))
             ELSE keep[k - 1]
  IN  keep[Len(form)]

\* if hasattr(value, "filename"):
\*     files[key] = (value.filename, await value.read(), value.content_type)
Files(form) == SelectSeq(FormItems(form), LAMBDA p : p.file)

\* else: data[key] = value
Data(form) == SelectSeq(FormItems(form), LAMBDA p : ~p.file)

\* await request.json() raises on text that is no JSON; body.get raises on
\* JSON that is no object
BodyRaises(r) == r.body \in {"invalid", "nonobject"}

\* a header: its name and its value, the value a sequence of pieces of text
H(name, value) == [name |-> name, value |-> value]

ResponseStatuses == {200, 404, 503}

ResponseHeaders ==
  {<<H("content-type", <<"application/json">>)>>,
   <<H("content-type", <<"text/plain">>)>>,
   <<H("content-type", <<"application/json">>), H("set-cookie", <<"a=1">>),
     H("set-cookie", <<"b=2">>)>>,
   <<H("content-type", <<"application/json">>),
     H("content-encoding", <<"gzip">>), H("vary", <<"accept-encoding">>)>>}

\* the chunks of content a backend emits
Chunks == {<<"a">>, <<"b">>, <<"a", "b">>}

RECURSIVE Join(_)
\* ", ".join(values)
Join(values) ==
  IF values = <<>> THEN <<>>
  ELSE IF Len(values) = 1 THEN values[1]
  ELSE values[1] \o <<", ">> \o Join(Tail(values))

\* httpx.Headers.__getitem__: the values of every header of that name,
\* joined
GetHeader(hs, name) ==
  LET named == SelectSeq(hs, LAMBDA h : h.name = name)
  IN  Join([k \in 1..Len(named) |-> named[k].value])

\* dict(resp.headers): one item for each name, at the place of its first
\* header
HeadersDict(hs) ==
  LET first == {k \in 1..Len(hs) : \A j \in 1..(k - 1) : hs[j].name # hs[k].name}
      keep[k \in 0..Len(hs)] ==
        IF k = 0 THEN <<>>
        ELSE IF k \in first
             THEN Append(keep[k - 1], H(hs[k].name, GetHeader(hs, hs[k].name)))
             ELSE keep[k - 1]
  IN  keep[Len(hs)]

\* the Content-Encoding a response declares
Encoding(hs) ==
  IF \E k \in 1..Len(hs) : hs[k].name = "content-encoding"
  THEN GetHeader(hs, "content-encoding")
  ELSE <<"identity">>

\* the bytes of a body: the content, under the encoding it is sent in
Bytes(enc, content) == [enc |-> enc, content |-> content]

\* resp.content: the body with its Content-Encoding undone
Content(up) == Concat(up.emitted)

\* what the backend produced: upstream.emitted holds the content of the
\* body, which went over the wire under the encoding the headers declare
Produced(up) ==
  [status |-> up.status, headers |-> up.headers,
   body |-> Bytes(Encoding(up.headers), Concat(up.emitted))]

\* what the caller was sent: the gateway writes its chunks as they are
Returned(c) ==
  [status |-> c.status, headers |-> c.headers,
   body |-> Bytes(<<"identity">>, Concat(c.chunks))]

\* Response(content=resp.content, status_code=resp.status_code,
\*          headers=dict(resp.headers))
Relay(up) ==
  [phase |-> "complete", kind |-> "relay", status |-> up.status,
   headers |-> HeadersDict(up.headers), chunks |-> <<Content(up)>>,
   detail |-> "none"]

\* raise HTTPException(status_code=500, detail=str(e))
HttpException(e) ==
  [phase |-> "complete", kind |-> "http_exception", status |-> InternalError,
   headers |-> <<H("content-type", <<"application/json">>)>>,
   chunks |-> <<>>, detail |-> Str(e)]

\* an exception no handler catches: the framework answers for the handler
Unhandled ==
  [phase |-> "complete", kind |-> "unhandled", status |-> InternalError,
   headers |-> <<H("content-type", <<"text/plain">>)>>,
   chunks |-> <<>>, detail |-> "Internal Server Error"]

\* StreamingResponse(stream_generator(), media_type="text/event-stream"):
\* the response is started before the generator is first resumed
StreamingResponse ==
  [phase |-> "started", kind |-> "stream", status |-> DefaultStatus,
   headers |-> <<H("content-type", <<"text/event-stream">>)>>,
   chunks |-> <<>>, detail |-> "none"]

\* an exchange that has begun; held says that a stream_generator is inside
\* its async with block, which keeps the exchange open until it is left
Connecting ==
  [phase |-> "connecting", status |-> 0, headers |-> <<>>, emitted |-> <<>>,
   exc |-> "none", held |-> FALSE]

\* resp = await http_client.post(target_url, ...): the request goes out
Post(o) ==
  /\ outbound' = Append(outbound, Target(o))
  /\ upstream' = Connecting
  /\ pc' = "post"
  /\ UNCHANGED caller
  /\ Await

\* a handler that forwards the raw body and parses it afterwards
RejectAfterPost ==
  /\ caller' = Unhandled
  /\ pc' = "responded"
  /\ outbound' = Append(outbound, Target(op'))
  /\ UNCHANGED upstream
  /\ Runs

\* the handler is left by the exception of request.json() / body.get
Reject ==
  /\ caller' = Unhandled
  /\ pc' = "responded"
  /\ UNCHANGED <<outbound, upstream>>
  /\ Runs

\* POST /v1/chat/completions, up to its first backend call
ChatReceive ==
  /\ op = "idle"
  /\ op' = "chat"
  /\ \E r \in ChatRequests :
       /\ req' = r
       /\ IF BodyRaises(r) THEN Reject
          ELSE IF ~Truthy(r.stream) THEN Post("chat")
          ELSE /\ caller' = StreamingResponse
               /\ pc' = "stream_start"
               /\ UNCHANGED <<outbound, upstream>>
               /\ Runs
  /\ UNCHANGED <<health, idx, probes, models, fetched>>
  /\ UNCHANGED <<multipart, earlier, peer>>

\* POST /v1/embeddings, up to its backend call
EmbeddingsReceive ==
  /\ op = "idle"
  /\ op' = "embeddings"
  /\ \E r \in JsonRequests :
       /\ req' = r
       /\ IF BodyRaises(r) THEN Reject ELSE Post("embeddings")
  /\ UNCHANGED <<health, idx, probes, models, fetched>>
  /\ UNCHANGED <<multipart, earlier, peer>>

\* POST /v1/audio/transcriptions, up to its backend call
TranscriptionsReceive ==
  /\ op = "idle"
  /\ op' = "transcriptions"
  /\ \E r \in FormRequests :
       /\ req' = r
       /\ multipart' = [data |-> Data(r.form), files |-> Files(r.form)]
       /\ Post("transcriptions")
  /\ UNCHANGED <<health, idx, probes, models, fetched>>
  /\ UNCHANGED <<earlier, peer>>

\* POST /v1/audio/speech, up to its backend call
SpeechReceive ==
  /\ op = "idle"
  /\ op' = "speech"
  /\ \E r \in JsonRequests :
       /\ req' = r
       /\ IF BodyRaises(r) THEN Reject ELSE Post("speech")
  /\ UNCHANGED <<health, idx, probes, models, fetched>>
  /\ UNCHANGED <<multipart, earlier, peer>>

(***************************************************************************)
(* The backend's side of the exchange.                                     *)
(***************************************************************************)
\* the backend starts its response: status line and headers
BackendRespond ==
  /\ upstream.phase = "connecting"
  /\ \E s \in ResponseStatuses, hs \in ResponseHeaders :
       upstream' = [upstream EXCEPT !.phase = "open", !.status = s,
                                    !.headers = hs]
  /\ UNCHANGED <<op, pc, req, outbound, caller, health, idx, probes, models,
                 fetched>>
  /\ UNCHANGED <<multipart, earlier, peer, blocking>>

\* the backend emits the next chunk of the body
BackendEmit ==
  /\ upstream.phase = "open"
  /\ Len(upstream.emitted) < MaxChunks
  /\ \E c \in Chunks :
       upstream' = [upstream EXCEPT !.emitted = Append(@, c)]
  /\ UNCHANGED <<op, pc, req, outbound, caller, health, idx, probes, models,
                 fetched>>
  /\ UNCHANGED <<multipart, earlier, peer, blocking>>

\* the backend ends the body
BackendClose ==
  /\ upstream.phase = "open"
  /\ upstream' = [upstream EXCEPT !.phase = "closed"]
  /\ UNCHANGED <<op, pc, req, outbound, caller, health, idx, probes, models,
                 fetched>>
  /\ UNCHANGED <<multipart, earlier, peer, blocking>>

\* the exchange fails: no connection, a timeout, a connection lost with
\* part of the body received
BackendFail ==
  /\ upstream.phase \in {"connecting", "open"}
  /\ \E e \in Exceptions :
       upstream' = [upstream EXCEPT !.phase = "failed", !.exc = e]
  /\ UNCHANGED <<op, pc, req, outbound, caller, health, idx, probes, models,
                 fetched>>
  /\ UNCHANGED <<multipart, earlier, peer, blocking>>

(***************************************************************************)
(* The buffered relay.                                                     *)
(***************************************************************************)
\* a relay that answers with what it holds before the body has ended
PostReturnEarly ==
  /\ pc = "post"
  /\ upstream.phase \in {"open", "closed"}
  /\ caller' = Relay(upstream)
  /\ pc' = "responded"
  /\ UNCHANGED <<op, req, outbound, upstream, health, idx, probes, models,
                 fetched>>
  /\ UNCHANGED <<multipart, earlier, peer>>
  /\ Runs

\* return Response(content=resp.content, ...)
PostReturn ==
  /\ pc = "post"
  /\ upstream.phase = "closed"
  /\ caller' = Relay(upstream)
  /\ pc' = "responded"
  /\ UNCHANGED <<op, req, outbound, upstream, health, idx, probes, models,
                 fetched>>
  /\ UNCHANGED <<multipart, earlier, peer>>
  /\ Runs

\* a handler that tries the call again when it has failed
PostRaiseRetry ==
  /\ pc = "post"
  /\ upstream.phase = "failed"
  /\ outbound' = Append(outbound, Target(op))
  /\ upstream' = Connecting
  /\ Len(outbound) < 3
  /\ UNCHANGED <<op, pc, req, caller, health, idx, probes, models, fetched>>
  /\ UNCHANGED <<multipart, earlier, peer>>
  /\ Await

\* except Exception as e: raise HTTPException(status_code=500, detail=str(e))
PostRaise ==
  /\ pc = "post"
  /\ upstream.phase = "failed"
  /\ caller' = HttpException(upstream.exc)
  /\ pc' = "responded"
  /\ UNCHANGED <<op, req, outbound, upstream, health, idx, probes, models,
                 fetched>>
  /\ UNCHANGED <<multipart, earlier, peer>>
  /\ Runs

(***************************************************************************)
(* The streamed relay: stream_generator.                                   *)
(***************************************************************************)
\* async with http_client.stream("POST", target_url, ...): the request goes
\* out when the generator is first resumed
StreamOpen ==
  /\ pc = "stream_start"
  /\ outbound' = Append(outbound, Target("chat"))
  /\ upstream' = [Connecting EXCEPT !.held = TRUE]
  /\ pc' = "streaming"
  /\ UNCHANGED <<op, req, caller, health, idx, probes, models, fetched>>
  /\ UNCHANGED <<multipart, earlier, peer>>
  /\ Await

\* a relay that hands on the newest chunk it holds instead of the next one
NextChunkNewest(sent, emitted) == emitted[Len(emitted)]

\* the chunk aiter_bytes() hands out after those already yielded
NextChunk(sent, emitted) == emitted[Len(sent) + 1]

\* async for chunk in response.aiter_bytes(): yield chunk
StreamYield ==
  /\ pc = "streaming"
  /\ Len(caller.chunks) < Len(upstream.emitted)
  /\ caller' = [caller EXCEPT
                  !.chunks = Append(@, NextChunk(caller.chunks, upstream.emitted))]
  /\ UNCHANGED <<op, pc, req, outbound, upstream, health, idx, probes, models,
                 fetched>>
  /\ UNCHANGED <<multipart, earlier, peer>>
  /\ Await

\* aiter_bytes() is exhausted: the generator leaves async with and returns,
\* the response ends
StreamEnd ==
  /\ pc = "streaming"
  /\ upstream.phase = "closed"
  /\ Len(caller.chunks) = Len(upstream.emitted)
  /\ caller' = [caller EXCEPT !.phase = "complete"]
  /\ upstream' = [upstream EXCEPT !.held = FALSE]
  /\ pc' = "done"
  /\ UNCHANGED <<op, req, outbound, health, idx, probes, models,
                 fetched>>
  /\ UNCHANGED <<multipart, earlier, peer>>
  /\ Runs

\* a relay that reports the failure to the caller in a last frame
StreamRaiseWithErrorFrame ==
  /\ pc = "streaming"
  /\ upstream.phase = "failed"
  /\ Len(caller.chunks) = Len(upstream.emitted)
  /\ caller' = [caller EXCEPT !.phase = "aborted",
                              !.chunks = Append(@, <<Str(upstream.exc)>>)]
  /\ upstream' = [upstream EXCEPT !.held = FALSE]
  /\ pc' = "aborted"
  /\ UNCHANGED <<op, req, outbound, health, idx, probes, models,
                 fetched>>
  /\ UNCHANGED <<multipart, earlier, peer>>
  /\ Runs

\* the exception of the exchange leaves async with and the generator: the
\* response, already started, is cut
StreamRaise ==
  /\ pc = "streaming"
  /\ upstream.phase = "failed"
  /\ Len(caller.chunks) = Len(upstream.emitted)
  /\ caller' = [caller EXCEPT !.phase = "aborted"]
  /\ upstream' = [upstream EXCEPT !.held = FALSE]
  /\ pc' = "aborted"
  /\ UNCHANGED <<op, req, outbound, health, idx, probes, models,
                 fetched>>
  /\ UNCHANGED <<multipart, earlier, peer>>
  /\ Runs

\* a relay that does not notice that the caller has gone and reads on
CallerDisconnectUnnoticed ==
  /\ pc \in {"stream_start", "streaming"}
  /\ caller.phase # "disconnected"
  /\ caller' = [caller EXCEPT !.phase = "disconnected"]
  /\ UNCHANGED <<op, pc, req, outbound, upstream, health, idx, probes, models,
                 fetched>>
  /\ UNCHANGED <<multipart, earlier, peer>>
  /\ Runs

\* the caller goes away during a streamed response: the generator is
\* cancelled where it stands (or is never resumed) and reads no more
CallerDisconnect ==
  /\ pc \in {"stream_start", "streaming"}
  /\ caller' = [caller EXCEPT !.phase = "disconnected"]
  /\ pc' = "cancelled"
  /\ UNCHANGED <<op, req, outbound, upstream, health, idx, probes, models,
                 fetched>>
  /\ UNCHANGED <<multipart, earlier, peer>>
  /\ Runs

\* the cancelled generator is closed: async with is left and releases the
\* exchange
StreamClose ==
  /\ pc = "cancelled"
  /\ upstream.held
  /\ upstream' = [upstream EXCEPT
                    !.held = FALSE,
                    !.phase = IF @ \in {"connecting", "open"}
                              THEN "released" ELSE @]
  /\ UNCHANGED <<op, pc, req, outbound, caller, health, idx, probes, models,
                 fetched>>
  /\ UNCHANGED <<multipart, earlier, peer>>
  /\ Runs

(***************************************************************************)
(* A second request beside the one being served: a buffered proxy call,    *)
(* kept as its position, what its backend came to and what it returned.    *)
(***************************************************************************)
PeerOutcomes == {Responded(200), Raised("ConnectError")}

\* the second request comes in while the first is in flight: its handler
\* runs up to await http_client.post(...)
PeerReceive ==
  /\ op # "idle"
  /\ pc \notin {"responded", "done", "aborted", "cancelled"}
  /\ peer.pc = "none"
  /\ ~blocking
  /\ peer' = [peer EXCEPT !.pc = "waiting"]
  /\ UNCHANGED <<op, pc, req, outbound, upstream, caller, health, idx, probes,
                 models, fetched, multipart, earlier, blocking>>

\* the backend of the second request answers, or the call to it fails
PeerBackend ==
  /\ peer.pc = "waiting"
  /\ \E out \in PeerOutcomes : peer' = [peer EXCEPT !.pc = "answered", !.out = out]
  /\ UNCHANGED <<op, pc, req, outbound, upstream, caller, health, idx, probes,
                 models, fetched, multipart, earlier, blocking>>

\* the handler of the second request is resumed: return Response(...), or
\* raise HTTPException(status_code=500, detail=str(e))
PeerReturn ==
  /\ peer.pc = "answered"
  /\ ~blocking
  /\ peer' = [peer EXCEPT
                !.pc = "done",
                !.result = IF peer.out.kind = "resp"
                           THEN [status |-> peer.out.status, detail |-> "none"]
                           ELSE [status |-> InternalError,
                                 detail |-> Str(peer.out.exc)]]
  /\ UNCHANGED <<op, pc, req, outbound, upstream, caller, health, idx, probes,
                 models, fetched, multipart, earlier, blocking>>

(***************************************************************************)
(* The call has ended: the process keeps nothing of it.                    *)
(***************************************************************************)
Ended == pc \in {"responded", "done", "aborted", "cancelled"}

NextRequest ==
  /\ Ended
  /\ ~upstream.held
  /\ peer.pc \in {"none", "done"}
  /\ op' = "idle"
  /\ pc' = "idle"
  /\ req' = NoRequest
  /\ outbound' = <<>>
  /\ upstream' = NoUpstream
  /\ caller' = NoResponse
  /\ health' = NoHealth
  /\ idx' = 0
  /\ probes' = <<>>
  /\ models' = <<>>
  /\ fetched' = <<>>
  /\ multipart' = NoMultipart
  /\ earlier' = IF op = "health" THEN health.status ELSE earlier
  /\ peer' = NoPeer
  /\ blocking' = FALSE

NextHealth == HealthStart \/ HealthPrimary \/ HealthFallback \/ HealthReturn
                \/ NextRequest

SpecHealth == Init /\ [][NextHealth]_vars

NextModels == ModelsStart \/ ModelsBernard \/ ModelsVllm \/ ModelsReturn
                \/ NextRequest

SpecModels == Init /\ [][NextModels]_vars

NextProxy ==
  \/ ChatReceive \/ EmbeddingsReceive \/ TranscriptionsReceive \/ SpeechReceive
  \/ BackendRespond \/ BackendEmit \/ BackendClose \/ BackendFail
  \/ PostReturn \/ PostRaise
  \/ StreamOpen \/ StreamYield \/ StreamEnd \/ StreamRaise \/ CallerDisconnect
  \/ StreamClose
  \/ NextRequest

SpecProxy == Init /\ [][NextProxy]_vars

\* the chat operation alone, with the closing of a cancelled generator not
\* put off for ever: the event loop delivers the cancellation into the
\* generator or, for a generator left suspended, runs its aclose()
NextChat ==
  \/ ChatReceive
  \/ BackendRespond \/ BackendEmit \/ BackendClose \/ BackendFail
  \/ PostReturn \/ PostRaise
  \/ StreamOpen \/ StreamYield \/ StreamEnd \/ StreamRaise \/ CallerDisconnect
  \/ StreamClose
  \/ NextRequest

SpecChat == Init /\ [][NextChat]_vars /\ WF_vars(StreamClose)

\* one call (a chat call or a /health call) with a second request beside
\* it; a handler that can be resumed is resumed
NextPair ==
  \/ ChatReceive
  \/ BackendRespond \/ BackendEmit \/ BackendClose \/ BackendFail
  \/ PostReturn \/ PostRaise
  \/ StreamOpen \/ StreamYield \/ StreamEnd \/ StreamRaise
  \/ HealthStart \/ HealthPrimary \/ HealthFallback \/ HealthReturn
  \/ PeerReceive \/ PeerBackend \/ PeerReturn

SpecPair == Init /\ [][NextPair]_vars /\ WF_vars(PeerReturn)

\* requests of every kind, served one after another
Next == NextHealth \/ NextModels \/ NextProxy

Spec == Init /\ [][Next]_vars

(***************************************************************************)
(* Properties.                                                             *)
(***************************************************************************)

BufferedRelayIsIdentical ==
  (op \in ProxyOps /\ caller.kind = "relay") =>
    Returned(caller) = Produced(upstream)

\* the chat backend has answered with a status that is not 2xx, on a call
\* whose caller asked for a buffered response (no flag, or false) or for a
\* streamed one (true)
ChatBackendRefused ==
  /\ op = "chat"
  /\ req.stream \in {Absent, JFalse, JTrue}
  /\ upstream.phase \in {"open", "closed"}
  /\ upstream.status \notin 200..299

\* C3: when the chat backend has answered with a non-2xx status, whatever
\* the caller is given, buffered or streamed, carries that status, and the
\* call ends with the caller holding exactly the backend's body.
ChatRelaysBackendError ==
  ChatBackendRefused =>
    /\ caller.phase # "none" => caller.status = upstream.status
    /\ pc \in {"responded", "done"} =>
         Returned(caller).body = Produced(upstream).body

\* a proxied call that is not served by the streamed relay
BufferedCall == op \in ProxyOps /\ ~(op = "chat" /\ Truthy(req.stream))

\* nothing yet, or the whole backend response, or the internal error that
\* carries the description of the exception
NothingOrAllOrError ==
  \/ /\ pc = "post"
     /\ caller.phase = "none"
  \/ /\ pc = "responded"
     /\ caller.phase = "complete"
     /\ caller.kind = "relay"
     /\ upstream.phase = "closed"
     /\ caller.status = upstream.status
     /\ Concat(caller.chunks) = Concat(upstream.emitted)
  \/ /\ pc = "responded"
     /\ caller.phase = "complete"
     /\ caller.kind = "http_exception"
     /\ caller.status = 500
     /\ upstream.phase = "failed"
     /\ caller.detail = Str(upstream.exc)
     /\ caller.chunks = <<>>

\* C4 as stated: every buffered proxy call gives the caller the complete
\* backend response or the HTTP 500 JSON response with the description of
\* the transport exception, and nothing else.
BufferedIsAllOrError == BufferedCall => NothingOrAllOrError

\* C4, amended: every buffered proxy call whose inbound body was accepted
\* gives the caller the complete backend response or, on a transport
\* exception at any point of the exchange, the HTTP 500 JSON response with
\* the description of the exception; never a part of the backend response.
AcceptedBufferedIsAllOrError ==
  (BufferedCall /\ ~BodyRaises(req)) => NothingOrAllOrError

\* a buffered call answered with the internal error after the backend had
\* sent a part of its body
BufferedFailedMidBody ==
  /\ BufferedCall
  /\ pc = "responded"
  /\ caller.kind = "http_exception"
  /\ upstream.emitted # <<>>
  /\ upstream.status = 200

\* C5: a streamed chat call whose exchange failed before the backend's
\* response had started ends with the caller holding the HTTP 500 internal
\* error with the cause as text, not a 200 event stream.
StreamFailureBeforeStartIsError ==
  (/\ op = "chat"
   /\ req.stream = JTrue
   /\ pc = "aborted"
   /\ upstream.phase = "failed"
   /\ upstream.status = 0) =>
    /\ caller.kind = "http_exception"
    /\ caller.status = 500
    /\ caller.detail = Str(upstream.exc)

\* the backend and the path each operation is proxied to
TargetTable(o) ==
  CASE o = "chat" -> [backend |-> "bernard", path |-> "/api/v1/chat/completions"]
    [] o = "embeddings" -> [backend |-> "vllm", path |-> "/v1/embeddings"]
    [] o = "transcriptions" ->
         [backend |-> "whisper", path |-> "/v1/audio/transcriptions"]
    [] o = "speech" -> [backend |-> "kokoro", path |-> "/v1/audio/speech"]

AtMostOneToItsBackend ==
  /\ Len(outbound) <= 1
  /\ \A k \in 1..Len(outbound) : outbound[k] = TargetTable(op)

\* C6 as stated: a proxy call issues at most one backend request, to the
\* backend of its operation, and exactly one whenever its body parses.
OneRequestPerCall ==
  op \in ProxyOps =>
    /\ AtMostOneToItsBackend
    /\ (Ended /\ ~BodyRaises(req)) => Len(outbound) = 1

\* C6, amended: a proxy call issues at most one backend request, always to
\* the backend of its operation whatever the payload, never a second one
\* after a failure; and exactly one whenever its body parses, except for a
\* streamed chat call whose caller went away before the relay had opened
\* its backend request, which issues none.
OneRequestUnlessCallerGone ==
  op \in ProxyOps =>
    /\ AtMostOneToItsBackend
    /\ BodyRaises(req) => outbound = <<>>
    /\ (Ended /\ ~BodyRaises(req) /\ Len(outbound) # 1) =>
         /\ pc = "cancelled"
         /\ caller.kind = "stream"
         /\ caller.chunks = <<>>
         /\ upstream.phase = "none"

\* a call that ended with the internal error after its one request failed
FailedCallMadeOneRequest ==
  /\ op \in ProxyOps
  /\ pc = "responded"
  /\ caller.kind = "http_exception"
  /\ Len(outbound) = 1

\* the call is served by the streamed relay
Streamed == pc \in {"stream_start", "streaming", "done", "aborted", "cancelled"}

EventStreamType ==
  caller.kind = "stream" =>
    GetHeader(caller.headers, "content-type") = <<"text/event-stream">>

\* C7 as stated: a chat call is streamed if and only if the body carries
\* the flag with the value true, and a streamed response has the
\* event-stream content type.
StreamIffFlagIsTrue ==
  (op = "chat" /\ ~BodyRaises(req)) =>
    /\ Streamed <=> req.stream = [t |-> "bool", n |-> 1]
    /\ EventStreamType

\* C7, amended: a chat call is streamed if and only if the body carries the
\* flag with a value Python takes as true (true, a number other than zero,
\* a string that is not empty); it is buffered when the flag is absent,
\* false, null, zero or the empty string.  A streamed response has the
\* event-stream content type whatever the backend declares.
StreamIffFlagIsTruthy ==
  (op = "chat" /\ ~BodyRaises(req)) =>
    /\ Streamed <=> /\ req.stream.t \in {"bool", "num", "str"}
                    /\ req.stream.n > 0
    /\ ~Streamed <=> pc \in {"post", "responded"}
    /\ EventStreamType

\* a relay streamed on the flag 1, from a backend that declared JSON
StreamedOnNumberFlag ==
  /\ op = "chat"
  /\ pc = "done"
  /\ req.stream = [t |-> "num", n |-> 1]
  /\ GetHeader(upstream.headers, "content-type") = <<"application/json">>
  /\ GetHeader(caller.headers, "content-type") = <<"text/event-stream">>

\* the query was answered 200 with an object whose "data" is a list
GaveCatalog(out) ==
  /\ out.kind = "resp"
  /\ out.status = 200
  /\ out.body.json = "object"
  /\ out.body.has
  /\ out.body.data.t = "list"

Synthetic ==
  <<[t |-> "model", items |-> <<"whisper-1">>],
    [t |-> "model", items |-> <<"kokoro-v1.0">>]>>

\* C8: when both catalog queries succeed, with entries X from the chat
\* backend and Y from the embeddings backend, the list returned is X, then
\* Y, then whisper-1 and kokoro-v1.0, every entry kept, duplicates too.
CatalogsAreConcatenated ==
  (/\ op = "models"
   /\ pc = "responded"
   /\ GaveCatalog(fetched[1])
   /\ GaveCatalog(fetched[2])) =>
    models = fetched[1].body.data.items \o fetched[2].body.data.items
               \o Synthetic

\* both backends list the same model, the chat backend a second one too
SameModelFromBoth ==
  /\ op = "models"
  /\ pc = "responded"
  /\ GaveCatalog(fetched[1])
  /\ GaveCatalog(fetched[2])
  /\ Len(fetched[1].body.data.items) = 2
  /\ fetched[2].body.data.items = <<fetched[1].body.data.items[1]>>
  /\ Len(models) = 5

\* what a query is to contribute: its entries when it succeeded (none when
\* the object has no "data"), nothing when it failed in any way
Contribution(out) ==
  IF GaveCatalog(out) THEN out.body.data.items ELSE <<>>

\* C9: a catalog query that fails in any way (exception, status other than
\* 200, body that is no JSON or not the object with a list of entries)
\* contributes no entry; the other backend's entries and the two synthetic
\* entries are returned all the same.
FailedCatalogContributesNothing ==
  (op = "models" /\ pc = "responded") =>
    models = Contribution(fetched[1]) \o Contribution(fetched[2]) \o Synthetic

\* C10: in every response of GET /health the status is degraded if and
\* only if some record is not up, and ok if and only if all four are up.
HealthStatusReflectsRecords ==
  (op = "health" /\ pc = "responded") =>
    LET notUp == \E k \in 1..Len(health.services) :
                    health.services[k].status # "up"
    IN  /\ Len(health.services) = 4
        /\ health.status = "degraded" <=> notUp
        /\ health.status = "ok" <=> ~notUp

(***************************************************************************)
(* GET /health: the probes of one call and the records made from them.     *)
(***************************************************************************)
\* the probes a call has awaited for one backend, in order
ProbesOf(name) == SelectSeq(probes, LAMBDA p : p.name = name)

\* the backends whose record the call has written
Recorded == {Backends[k] : k \in 1..Len(health.services)}

\* the record of a backend
RecordOf(name) ==
  LET k == CHOOSE k \in 1..Len(health.services) : health.services[k].name = name
  IN health.services[k]

\* the primary attempt failed: it raised, or the path matched nothing
PrimaryFailed(out) == out.kind = "exc" \/ out.status = 404

\* C11: for every backend a /health call has recorded, the primary path was
\* probed first; a fallback probe of the root address followed exactly when
\* the primary attempt failed (it raised or its path did not match), and
\* there was one such probe; the record is up when the final attempt was
\* answered below 500, error when it was answered with a 5xx status, and
\* down exactly when both attempts raised, with the description of the
\* exception as its reason.
FallbackOnAnyPrimaryFailure ==
  op = "health" =>
    \A name \in Recorded :
      LET attempts == ProbesOf(name)
          final == attempts[Len(attempts)].out
          rec == RecordOf(name)
      IN /\ Len(attempts) >= 1
         /\ attempts[1].path = CheckPath(name)
         /\ Len(attempts) = IF PrimaryFailed(attempts[1].out) THEN 2 ELSE 1
         /\ Len(attempts) = 2 => attempts[2].path = ""
         /\ final.kind = "resp" =>
              /\ rec.status = IF final.status < 500 THEN "up" ELSE "error"
              /\ rec.reason = "none"
         /\ rec.status = "down" <=>
              \A k \in 1..Len(attempts) : attempts[k].out.kind = "exc"
         /\ rec.status = "down" => rec.reason = Str(final.exc)

\* C12: a /health call is never stuck or aborted whatever its probes come
\* to: while it runs a next step of it is possible, the records written so
\* far are those of the backends walked so far, one each and in order, and
\* it ends with HTTP 200 and a body holding one record for each of bernard,
\* vllm, whisper and kokoro, every one of them having been probed.
HealthAlwaysAnswersAllFour ==
  op = "health" =>
    /\ \A k \in 1..Len(health.services) : health.services[k].name = Backends[k]
    /\ pc # "responded" =>
         /\ Len(health.services) = idx - 1
         /\ ENABLED (HealthPrimary \/ HealthFallback \/ HealthReturn)
    /\ pc = "responded" =>
         /\ caller.phase = "complete"
         /\ caller.kind = "json"
         /\ caller.status = 200
         /\ Len(health.services) = Len(Backends)
         /\ \A k \in 1..Len(Backends) : ProbesOf(Backends[k]) # <<>>

\* a call has answered although its first backend was unreachable and a
\* later one answered with a server error
HealthAnsweredDespiteFailures ==
  /\ op = "health"
  /\ pc = "responded"
  /\ health.services[1].status = "down"
  /\ health.services[3].status = "error"
  /\ health.services[4].status = "up"

\* what the last probe of a backend came to
FinalOut(name) == ProbesOf(name)[Len(ProbesOf(name))].out

\* the backend answered a probe of the call with a status below 500
AnsweredBelow500(name) ==
  FinalOut(name).kind = "resp" /\ FinalOut(name).status < 500

\* both probes of the backend raised
Unreachable(name) ==
  /\ Len(ProbesOf(name)) = 2
  /\ \A k \in 1..2 : ProbesOf(name)[k].out.kind = "exc"

BackendNames == {Backends[k] : k \in 1..Len(Backends)}

\* C13: when a /health call has answered and all four backends answered
\* their probe below 500, the status is ok and every record is up; when
\* exactly one backend, whichever it is, was unreachable and the other
\* three answered below 500, the status is degraded, that backend's record
\* is down and the other three records are up.
HealthFailureIsIsolated ==
  (op = "health" /\ pc = "responded") =>
    /\ (\A b \in BackendNames : AnsweredBelow500(b)) =>
         /\ health.status = "ok"
         /\ \A b \in BackendNames : RecordOf(b).status = "up"
    /\ \A d \in BackendNames :
         (/\ Unreachable(d)
          /\ \A b \in BackendNames \ {d} : AnsweredBelow500(b)) =>
           /\ health.status = "degraded"
           /\ RecordOf(d).status = "down"
           /\ RecordOf(d).reason \in {Str(e) : e \in Exceptions}
           /\ \A b \in BackendNames \ {d} :
                RecordOf(b).status = "up" /\ RecordOf(b).reason = "none"

\* a call has answered with whisper alone unreachable, vllm having answered
\* only the fallback probe
OnlyWhisperUnreachable ==
  /\ op = "health"
  /\ pc = "responded"
  /\ Unreachable("whisper")
  /\ Len(ProbesOf("vllm")) = 2
  /\ \A b \in BackendNames \ {"whisper"} : AnsweredBelow500(b)
  /\ health.status = "degraded"

\* the health dict as the probes of this call alone determine it
FromProbes ==
  [status |-> IF \E b \in BackendNames : Unreachable(b)
              THEN "degraded" ELSE "ok",
   services |->
     [k \in 1..Len(Backends) |->
        LET out == FinalOut(Backends[k])
        IN  [name |-> Backends[k],
             status |-> IF out.kind = "exc" THEN "down"
                        ELSE IF out.status < 500 THEN "up" ELSE "error",
             reason |-> IF out.kind = "exc" THEN Str(out.exc) ELSE "none"]]]

\* C14: whatever requests were served before it (health calls, model
\* listings, proxy calls, failed or not), the status and the records a
\* /health call returns are determined by what its own probes came to, so
\* two calls that observe the same outcomes return the same; in particular
\* a call after one that returned degraded returns ok with every record up
\* when every backend now answers below 500.
HealthKeepsNoState ==
  (op = "health" /\ pc = "responded") =>
    /\ health = FromProbes
    /\ (earlier = "degraded" /\ \A b \in BackendNames : AnsweredBelow500(b)) =>
         /\ health.status = "ok"
         /\ \A b \in BackendNames : RecordOf(b).status = "up"

\* a call that found every backend answering below 500 has answered ok
\* after an earlier call that had returned degraded
RecoveredAfterDegraded ==
  /\ op = "health"
  /\ pc = "responded"
  /\ earlier = "degraded"
  /\ \A b \in BackendNames : AnsweredBelow500(b)
  /\ health.status = "ok"

(***************************************************************************)
(* The proxied operations: rejected bodies, forwarded forms.               *)
(***************************************************************************)
\* C15: a chat, embeddings or speech call whose body is no JSON text, or is
\* JSON but no object, is answered without any backend request having been
\* issued for it: nothing has gone out, no exchange has begun, and the call
\* has ended with the framework's answer for the raised exception.
MalformedBodyReachesNoBackend ==
  (op \in {"chat", "embeddings", "speech"} /\ BodyRaises(req)) =>
    /\ outbound = <<>>
    /\ upstream = NoUpstream
    /\ pc = "responded"
    /\ caller.kind = "unhandled"

\* a speech call with a JSON array for a body has been answered
SpeechBodyWasNoObject ==
  /\ op = "speech"
  /\ req.body = "nonobject"
  /\ pc = "responded"
  /\ caller.status = 500

\* the field names of a sequence of parts
Names(parts) == {parts[k].name : k \in 1..Len(parts)}

\* the parts of the outbound multipart request
OutboundParts == multipart.data \o multipart.files

\* C16: in a transcription call the field names of the outbound multipart
\* request are those of the inbound form (no field is added, none is sent
\* empty in place of an absent one), every inbound scalar field is forwarded
\* with its value and every inbound file part with its filename, content and
\* content type.
FormIsForwardedFieldByField ==
  op = "transcriptions" =>
    /\ Names(OutboundParts) = Names(req.form)
    /\ \A k \in 1..Len(OutboundParts) :
         \E j \in 1..Len(req.form) : OutboundParts[k] = req.form[j]
    /\ \A j \in 1..Len(req.form) :
         \E k \in 1..Len(OutboundParts) :
           /\ OutboundParts[k].name = req.form[j].name
           /\ OutboundParts[k].file = req.form[j].file
           /\ OutboundParts[k].content = req.form[j].content
           /\ OutboundParts[k].filename = req.form[j].filename
           /\ OutboundParts[k].type = req.form[j].type

(***************************************************************************)
(* The streamed relay: how it ends.                                        *)
(***************************************************************************)
\* C17: when a streamed relay has been ended by a failure of the backend
\* stream, the caller holds exactly the chunks that were forwarded before
\* the failure, in order, and nothing else: the response is the started
\* event stream, cut, with no error frame or error answer added, and the
\* generator has left async with, so the upstream stream is closed.
AbortedStreamHoldsForwardedChunks ==
  pc = "aborted" =>
    /\ op = "chat"
    /\ upstream.phase = "failed"
    /\ caller.phase = "aborted"
    /\ caller.kind = "stream"
    /\ caller.status = 200
    /\ caller.detail = "none"
    /\ caller.chunks = upstream.emitted
    /\ ~upstream.held

\* a relay has been cut by a failure after one chunk was forwarded
StreamFailedAfterOneChunk ==
  /\ pc = "aborted"
  /\ Len(caller.chunks) = 1
  /\ upstream.exc = "ReadTimeout"

Resolved == IF op = "health" THEN Len(probes) ELSE Len(fetched)

\* the backends with a request of the call sent and not yet resolved
InFlight == {outbound[k].backend : k \in (Resolved + 1)..Len(outbound)}

\* the backends a request of the call has gone out to
Started == {outbound[k].backend : k \in 1..Len(outbound)}

\* C19: in a /health call the probes of the four backends, and in a
\* /v1/models call the two catalog queries, go out together: while a request
\* of the call is waiting for its answer, the request to every backend of
\* the call has been started, so no backend waits for an earlier one.
AggregationFansOut ==
  /\ (op = "health" /\ InFlight # {}) => Started = BackendNames
  /\ (op = "models" /\ InFlight # {}) => Started = {"bernard", "vllm"}

(***************************************************************************)
(* Two requests in flight.                                                 *)
(***************************************************************************)
\* the first request is suspended on its backend: a health probe unanswered,
\* a buffered call whose response has not come in whole, a streamed relay
\* with no chunk to hand on
Suspended ==
  \/ op = "health" /\ pc \in {"primary", "fallback"} /\ idx <= Len(Backends)
  \/ pc = "post" /\ upstream.phase \in {"connecting", "open"}
  \/ /\ pc = "streaming"
     /\ upstream.phase \in {"connecting", "open"}
     /\ Len(caller.chunks) = Len(upstream.emitted)

\* C20: a request suspended on its backend does not hold back another one:
\* while it waits, a second request can be taken up and, once its own
\* backend has answered, can be resumed, and it is resumed in the end; what
\* the second request returns is what its own backend's answer determines;
\* and a step of either request changes nothing of the other, so each
\* proceeds and answers as it would alone.
ConcurrentRequestsDoNotBlock ==
  /\ []((Suspended /\ peer.pc = "none") => ENABLED PeerReceive)
  /\ []((Suspended /\ peer.pc = "answered") => ENABLED PeerReturn)
  /\ [](peer.pc = "done" =>
          peer.result = IF peer.out.kind = "resp"
                        THEN [status |-> peer.out.status, detail |-> "none"]
                        ELSE [status |-> 500, detail |-> Str(peer.out.exc)])
  /\ [][(peer' # peer) =>
          UNCHANGED <<op, pc, req, outbound, upstream, caller, health, idx,
                      probes, models, fetched, multipart>>]_vars
  /\ (peer.pc = "answered") ~> (peer.pc = "done")

\* the second request has been answered while the streamed relay of the
\* first was still waiting for its next chunk
PeerDoneWhileRelayWaits ==
  /\ pc = "streaming"
  /\ Suspended
  /\ Len(caller.chunks) = 1
  /\ peer.pc = "done"
  /\ peer.result.status = 200

====
